---- MODULE Spec2Model ----
(***************************************************************************)
(* Rack thermal visualisation extension (extension.py, class MyExtension). *)
(*                                                                         *)
(* The USD stage is a map from prim paths to the four attributes the       *)
(* extension touches; the extension state is the override cache            *)
(* _orig_colors and the UI value models.  Every handler runs to            *)
(* completion, so every handler is one action.                             *)
(*                                                                         *)
(* Numbers.  The code works on reals (Python floats).  The model is exact  *)
(* rational arithmetic on integers, with units chosen so that the two      *)
(* literals of the code are the integer 1:                                 *)
(*   cp          in units of 1e-6 J/(kg K)   (the clamp floor, line 215)   *)
(*   temperature in units of 1e-3 K          (tol, line 297)               *)
(*   power, flow in units with  deltaT = power / (cp * mdot)  unit free.   *)
(* A quotient is kept as a fraction [n, d] with d > 0 and compared by      *)
(* cross multiplication, so no rounding is modelled.                       *)
(***************************************************************************)
EXTENDS Integers, Sequences, FiniteSets, TLC

\* ------------------------------------------------------------------ bounds
\* handlers and host edits in one run
MaxSteps == 4

\* ------------------------------------------------------- program constants
CpFloor == 1
Tol == 1

\* the prim paths of the stage; a pass treats each prim on its own, so two
\* prims show every way one prim's handling could disturb another's
Paths == {1, 2}

\* values the UI fields are given
CpVals == {0, 8}
TargetVals == {0, 2}
ModeVals == {0, 1}

\* ------------------------------------------------------------- attributes
\* A double-valued attribute of a prim: not there, there without an authored
\* value, authored with a value float() rejects, or authored with a number.
Absent == [st |-> "absent", n |-> 0, d |-> 1]
Unauthored == [st |-> "unauthored", n |-> 0, d |-> 1]
Bad == [st |-> "bad", n |-> 0, d |-> 1]
Num(v) == [st |-> "num", n |-> v, d |-> 1]
Frac(a, b) == [st |-> "num", n |-> a, d |-> b]

\* bool(attr): the attribute object is valid
Exists(a) == a.st # "absent"
HasAuthoredValue(a) == a.st \in {"bad", "num"}

\* primvars:displayColor is "absent", "unauthored" or the authored colour
GRAY == "gray"
GREEN == "green"
YELLOW == "yellow"
RED == "red"
ColorExists(c) == c # "absent"
ColorAuthored(c) == c \notin {"absent", "unauthored"}
\* what color_attr.Get() shows: the authored colour or None
Shown(c) == IF ColorAuthored(c) THEN c ELSE "None"

Abs(x) == IF x < 0 THEN -x ELSE x
Max(a, b) == IF a >= b THEN a ELSE b

EmptyCache == [p \in {} |-> "None"]
NoWrites == {}

\* ------------------------------------------------------- _apply_color_for_prim
\* mutant: no neutral colour for a target that is not positive
Classify_NoNeutral(delta_t, target_dt) ==
    IF delta_t.n < (target_dt - Tol) * delta_t.d THEN GREEN
    ELSE IF Abs(delta_t.n - target_dt * delta_t.d) <= Tol * delta_t.d THEN YELLOW
    ELSE RED

\* lines 297-306: the colour for delta_t (a fraction) against target_dt
Classify(delta_t, target_dt) ==
    IF target_dt <= 0 THEN GRAY
    ELSE IF delta_t.n < (target_dt - Tol) * delta_t.d THEN GREEN
    ELSE IF Abs(delta_t.n - target_dt * delta_t.d) <= Tol * delta_t.d THEN YELLOW
    ELSE RED

\* mutant: the original colour is recorded on every call
RecordIfAbsent_Always(s, e) ==
    LET c == s.prims[e].dc
        orig == IF ColorExists(c) /\ ColorAuthored(c) THEN c ELSE "None"
    IN [s EXCEPT !.orig_colors =
           [p \in DOMAIN s.orig_colors \cup {e} |->
               IF p = e THEN orig ELSE s.orig_colors[p]]]

\* mutant: nothing is recorded
RecordIfAbsent_Never(s, e) == s

\* lines 288-294: record the original colour, only once per path
RecordIfAbsent(s, e) ==
    IF e \in DOMAIN s.orig_colors THEN s
    ELSE LET c == s.prims[e].dc
             orig == IF ColorExists(c) /\ ColorAuthored(c) THEN c ELSE "None"
         IN [s EXCEPT !.orig_colors =
                [p \in DOMAIN s.orig_colors \cup {e} |->
                    IF p = e THEN orig ELSE s.orig_colors[p]]]

\* lines 308-316: create the attribute if needed and set the colour
SetColor(s, e, color) ==
    [s EXCEPT !.prims[e].dc = color,
              !.writes = s.writes \cup {<<e, "displayColor", "set">>}]

\* mutant: the colour is set without the record step
ApplyColorForPrim_NoRecord(s, e, delta_t, target_dt) ==
    IF ~s.open THEN s
    ELSE SetColor(s, e, Classify(delta_t, target_dt))

\* lines 282-316
ApplyColorForPrim(s, e, delta_t, target_dt) ==
    IF ~s.open THEN s
    ELSE SetColor(RecordIfAbsent(s, e), e, Classify(delta_t, target_dt))

\* ------------------------------------------------------------ _restore_colors
\* mutant: the "had no colour" case keeps the override instead of removing it
RestoreOne_KeepsOverride(pr, orig) ==
    IF ~pr.valid THEN pr
    ELSE IF orig = "None" THEN pr
         ELSE [pr EXCEPT !.dc = orig]

\* lines 324-341 for one cached path
RestoreOne(pr, orig) ==
    IF ~pr.valid THEN pr
    ELSE IF orig = "None"
         THEN IF ColorExists(pr.dc) THEN [pr EXCEPT !.dc = "absent"] ELSE pr
         ELSE [pr EXCEPT !.dc = orig]

RestoreWrites(s) ==
    {<<e, "displayColor", "remove">> : e \in
        {p \in DOMAIN s.orig_colors :
            s.prims[p].valid /\ s.orig_colors[p] = "None" /\ ColorExists(s.prims[p].dc)}}
    \cup
    {<<e, "displayColor", "set">> : e \in
        {p \in DOMAIN s.orig_colors :
            s.prims[p].valid /\ s.orig_colors[p] # "None"}}

\* mutant: the cache is not cleared after the loop
ClearedCache_Kept(s) == s.orig_colors

\* the cache after the loop, line 343
ClearedCache(s) == EmptyCache

\* mutant: a cached prim that no longer resolves ends the restore loop's effect
RestoreColors_StopsAtInvalid(s) ==
    IF ~s.open THEN s
    ELSE IF \E e \in DOMAIN s.orig_colors : ~s.prims[e].valid
         THEN [s EXCEPT !.pass = "restore"]
         ELSE [s EXCEPT
                 !.prims = [e \in Paths |->
                     IF e \in DOMAIN s.orig_colors
                     THEN RestoreOne(s.prims[e], s.orig_colors[e])
                     ELSE s.prims[e]],
                 !.writes = s.writes \cup RestoreWrites(s),
                 !.orig_colors = ClearedCache(s),
                 !.pass = "restore"]

\* lines 318-343
RestoreColors(s) ==
    IF ~s.open THEN s
    ELSE [s EXCEPT
            !.prims = [e \in Paths |->
                IF e \in DOMAIN s.orig_colors
                THEN RestoreOne(s.prims[e], s.orig_colors[e])
                ELSE s.prims[e]],
            !.writes = s.writes \cup RestoreWrites(s),
            !.orig_colors = ClearedCache(s),
            !.pass = "restore"]

\* -------------------------------------------------------- _recompute_and_color
\* mutant: cp is used as the field gives it
ClampCp_Unclamped(v) == v

\* line 215
ClampCp(v) == Max(v, CpFloor)

\* mutant: the required flow is written to user:mdotActual
SetRequired_WritesActual(s, e, m_required) ==
    [s EXCEPT !.prims[e].mdot = m_required,
              !.writes = s.writes \cup {<<e, "mdotActual", "set">>}]

\* lines 251-258: create user:mdotRequired if needed and set it
SetRequired(s, e, m_required) ==
    [s EXCEPT !.prims[e].mreq = m_required,
              !.writes = s.writes \cup {<<e, "mdotRequired", "set">>}]

\* mutant: a heat load of zero is not skipped (< instead of <=)
VisitPrim_ZeroLoad(s, e, cp, target_dt, mode) ==
    LET pr == s.prims[e] IN
    IF ~pr.valid THEN s
    ELSE IF ~Exists(pr.power) \/ ~HasAuthoredValue(pr.power) THEN s
    ELSE IF pr.power.st = "bad" THEN s
    ELSE IF pr.power.n < 0 THEN s
    ELSE IF mode = 0
         THEN IF target_dt <= 0 THEN s
              ELSE ApplyColorForPrim(
                       SetRequired(s, e, Frac(pr.power.n, cp * target_dt)),
                       e, Frac(target_dt, 1), target_dt)
         ELSE IF ~Exists(pr.mdot) \/ ~HasAuthoredValue(pr.mdot) THEN s
              ELSE IF pr.mdot.st = "bad" THEN s
              ELSE IF pr.mdot.n <= 0 THEN s
              ELSE ApplyColorForPrim(
                       s, e, Frac(pr.power.n, cp * pr.mdot.n), target_dt)

\* mutant: in design mode the colour step is handed a delta_t of zero
VisitPrim_DesignDeltaZero(s, e, cp, target_dt, mode) ==
    LET pr == s.prims[e] IN
    IF ~pr.valid THEN s
    ELSE IF ~Exists(pr.power) \/ ~HasAuthoredValue(pr.power) THEN s
    ELSE IF pr.power.st = "bad" THEN s
    ELSE IF pr.power.n <= 0 THEN s
    ELSE IF mode = 0
         THEN IF target_dt <= 0 THEN s
              ELSE ApplyColorForPrim(
                       SetRequired(s, e, Frac(pr.power.n, cp * target_dt)),
                       e, Frac(0, 1), target_dt)
         ELSE IF ~Exists(pr.mdot) \/ ~HasAuthoredValue(pr.mdot) THEN s
              ELSE IF pr.mdot.st = "bad" THEN s
              ELSE IF pr.mdot.n <= 0 THEN s
              ELSE ApplyColorForPrim(
                       s, e, Frac(pr.power.n, cp * pr.mdot.n), target_dt)

\* mutant: the audit branch writes user:mdotRequired as the design branch does
VisitPrim_AuditWritesRequired(s, e, cp, target_dt, mode) ==
    LET pr == s.prims[e] IN
    IF ~pr.valid THEN s
    ELSE IF ~Exists(pr.power) \/ ~HasAuthoredValue(pr.power) THEN s
    ELSE IF pr.power.st = "bad" THEN s
    ELSE IF pr.power.n <= 0 THEN s
    ELSE IF mode = 0
         THEN IF target_dt <= 0 THEN s
              ELSE ApplyColorForPrim(
                       SetRequired(s, e, Frac(pr.power.n, cp * target_dt)),
                       e, Frac(target_dt, 1), target_dt)
         ELSE IF ~Exists(pr.mdot) \/ ~HasAuthoredValue(pr.mdot) THEN s
              ELSE IF pr.mdot.st = "bad" THEN s
              ELSE IF pr.mdot.n <= 0 THEN s
              ELSE ApplyColorForPrim(
                       SetRequired(s, e, pr.mdot),
                       e, Frac(pr.power.n, cp * pr.mdot.n), target_dt)

\* lines 229-280: the loop body for one prim
VisitPrim(s, e, cp, target_dt, mode) ==
    LET pr == s.prims[e] IN
    IF ~pr.valid THEN s
    ELSE IF ~Exists(pr.power) \/ ~HasAuthoredValue(pr.power) THEN s
    ELSE IF pr.power.st = "bad" THEN s
    ELSE IF pr.power.n <= 0 THEN s
    ELSE IF mode = 0
         THEN IF target_dt <= 0 THEN s
              ELSE ApplyColorForPrim(
                       SetRequired(s, e, Frac(pr.power.n, cp * target_dt)),
                       e, Frac(target_dt, 1), target_dt)
         ELSE IF ~Exists(pr.mdot) \/ ~HasAuthoredValue(pr.mdot) THEN s
              ELSE IF pr.mdot.st = "bad" THEN s
              ELSE IF pr.mdot.n <= 0 THEN s
              ELSE ApplyColorForPrim(
                       s, e, Frac(pr.power.n, cp * pr.mdot.n), target_dt)

\* mutant: the loop ends after the first prim
Traverse_FirstOnly(s, order, cp, target_dt, mode) ==
    IF order = << >> THEN s
    ELSE VisitPrim(s, Head(order), cp, target_dt, mode)

\* line 228: the loop over stage.Traverse(), in the order the stage gives
RECURSIVE Traverse(_, _, _, _, _)
Traverse(s, order, cp, target_dt, mode) ==
    IF order = << >> THEN s
    ELSE Traverse(VisitPrim(s, Head(order), cp, target_dt, mode),
                  Tail(order), cp, target_dt, mode)

\* mutant: a full pass keeps the entries of the pass before
PassStartCache_Kept(s) == s.orig_colors

\* lines 225-226: the cache a full pass starts from
PassStartCache(s) == EmptyCache

\* mutant: the override checkbox is not consulted
RecomputeAndColor_IgnoresCheckbox(s, cfg, order) ==
    IF ~s.open THEN s
    ELSE Traverse([s EXCEPT !.orig_colors = PassStartCache(s), !.pass = "full"],
                  order, ClampCp(cfg.cp), cfg.target_dt, cfg.mode)

\* lines 210-280
RecomputeAndColor(s, cfg, order) ==
    IF ~s.open THEN s
    ELSE IF ~cfg.enable_override THEN RestoreColors(s)
    ELSE Traverse([s EXCEPT !.orig_colors = PassStartCache(s), !.pass = "full"],
                  order, ClampCp(cfg.cp), cfg.target_dt, cfg.mode)

\* ------------------------------------------------ _apply_defaults_to_selection
\* mutant: only user:rackPowerW is written
WriteDefaults_PowerOnly(s, paths, power_val, mdot_val) ==
    [s EXCEPT
        !.prims = [e \in Paths |->
            IF e \in paths /\ s.prims[e].valid
            THEN [s.prims[e] EXCEPT !.power = Num(power_val)]
            ELSE s.prims[e]],
        !.writes = s.writes
            \cup {<<e, "rackPowerW", "set">> : e \in {p \in paths : s.prims[p].valid}}]

\* lines 174-199: write both attributes on every selected prim that resolves
WriteDefaults(s, paths, power_val, mdot_val) ==
    [s EXCEPT
        !.prims = [e \in Paths |->
            IF e \in paths /\ s.prims[e].valid
            THEN [s.prims[e] EXCEPT !.power = Num(power_val), !.mdot = Num(mdot_val)]
            ELSE s.prims[e]],
        !.writes = s.writes
            \cup {<<e, "rackPowerW", "set">> : e \in {p \in paths : s.prims[p].valid}}
            \cup {<<e, "mdotActual", "set">> : e \in {p \in paths : s.prims[p].valid}}]

\* the arguments of the batch assignment (lines 167-171), and the selected
\* prims that had no user:rackPowerW or no user:mdotActual attribute yet
Selection(s, paths, power_val, mdot_val) ==
    <<[paths |-> paths, power_val |-> power_val, mdot_val |-> mdot_val,
       created |-> {e \in paths : s.prims[e].valid
                       /\ (~Exists(s.prims[e].power) \/ ~Exists(s.prims[e].mdot))}]>>

\* lines 162-207
ApplyDefaults(s, cfg, order, paths, power_val, mdot_val) ==
    LET t == [s EXCEPT !.selection = Selection(s, paths, power_val, mdot_val)] IN
    IF ~t.open THEN t
    ELSE RecomputeAndColor(WriteDefaults(t, paths, power_val, mdot_val), cfg, order)

\* ------------------------------------------------------------------- state
VARIABLES
    stage_open,                     \* _get_stage() is not None
    prims,                          \* the stage: path -> attributes of the prim
    orig_colors,                    \* self._orig_colors
    cp_model,                       \* self._cp_model
    target_dt_model,                \* self._target_dt_model
    mode_model,                     \* self._mode_model, 0 design, 1 audit
    color_override_enabled_model,   \* self._color_override_enabled_model
    window,                         \* self._window, "open" or "none"
    pass,                           \* history: what ran last: full, restore, none, host
    prev_pass,                      \* history: what ran before that
    trip,                           \* history: enable-disable round trip: none, enabled, restored
    enable_pre,                     \* history: colours before the enabling pass of the trip
    restored_keys,                  \* history: the cache keys the last restore pass started with
    applies,                        \* history: calls of _apply_color_for_prim per prim
    probe,                          \* history: the last call's prim, delta_t, target_dt, colour
    batched,                        \* history: the prims the batch assignment wrote last
    colored,                        \* history: the prims whose colour it set in a full pass
    pristine,                       \* history: colour before the session's first override
    selection,                      \* history: the arguments of the batch assignment just run
    stale,                          \* history: prims a full pass coloured and the next one skipped
    steps                           \* number of handlers and host edits run so far

vars == <<stage_open, prims, orig_colors, cp_model, target_dt_model, mode_model,
          color_override_enabled_model, window, pass, prev_pass,
          trip, enable_pre, restored_keys, applies, probe,
          batched, colored, pristine, selection, stale, steps>>

config == <<cp_model, target_dt_model, mode_model, color_override_enabled_model>>

\* the orders a traversal could visit the prims in, and the one this stage gives
Orders == {o \in [1..Cardinality(Paths) -> Paths] :
              \A i, j \in 1..Cardinality(Paths) : o[i] = o[j] => i = j}
StageOrder == CHOOSE o \in Orders : \A i, j \in DOMAIN o : i < j => o[i] < o[j]
BatchPowerVals == {4}
BatchMdotVals == {1}

ColorInit == {"absent", "unauthored", "blue"}
Prim(p, m, c) == [valid |-> TRUE, power |-> p, mdot |-> m, mreq |-> Absent, dc |-> c]

\* a prim as the stage holds it before the extension has touched it: a rack
\* with both inputs, a rack whose flow is unusable, a prim whose power is unusable
PrimInit ==
    {Prim(Num(4), Num(1), c) : c \in ColorInit}
    \cup {Prim(Num(4), m, "blue") : m \in {Absent, Unauthored, Bad, Num(0)}}
    \cup {Prim(p, Num(1), "blue") : p \in {Absent, Unauthored, Bad, Num(0)}}

NoProbe == [e |-> 0, at |-> "none", delta_t |-> Frac(0, 1), target_dt |-> 0, color |-> "none"]

\* the state a handler starts from and the configuration it reads
Start == [open |-> stage_open, prims |-> prims, orig_colors |-> orig_colors,
          writes |-> NoWrites, pass |-> "none", selection |-> << >>]
Cfg(cpv, tdt, md, en) == [cp |-> cpv, target_dt |-> tdt, mode |-> md, enable_override |-> en]

\* the prims a handler's batch assignment wrote
Batched(r) == {e \in Paths : <<e, "rackPowerW", "set">> \in r.writes}

\* the prims whose colour a handler set
Colored(r) == {e \in Paths : <<e, "displayColor", "set">> \in r.writes}

\* history of the session: the colour each overridden prim had before its first override
NextPristine(r) ==
    IF r.pass = "full"
    THEN [e \in DOMAIN pristine \cup Colored(r) |->
            IF e \in DOMAIN pristine THEN pristine[e] ELSE prims[e].dc]
    ELSE IF r.pass = "restore" THEN EmptyCache
    ELSE pristine

\* history of the session: the prims an earlier full pass of the session coloured
\* and this full pass leaves out
NextStale(r) ==
    IF r.pass = "full"
    THEN stale \cup {e \in DOMAIN pristine \ Colored(r) : r.prims[e].valid}
    ELSE stale

\* history of the round trip: an enabling pass from the disabled state with an
\* empty cache, then a restore pass with no other handler in between
Enabling(r, toggled_on) == toggled_on /\ r.pass = "full" /\ orig_colors = EmptyCache
Disabling(r) == trip = "enabled" /\ r.pass = "restore"

\* the handler's result becomes the next state
Commit(r, toggled_on) ==
    /\ steps < MaxSteps
    /\ steps' = steps + 1
    /\ prims' = r.prims
    /\ orig_colors' = r.orig_colors
    /\ pass' = r.pass
    /\ prev_pass' = pass
    /\ restored_keys' = IF r.pass = "restore" THEN DOMAIN orig_colors ELSE {}
    /\ batched' = Batched(r)
    /\ colored' = IF r.pass = "full" THEN Colored(r) ELSE {}
    /\ pristine' = NextPristine(r)
    /\ selection' = r.selection
    /\ stale' = NextStale(r)
    /\ trip' = IF Enabling(r, toggled_on) THEN "enabled"
               ELSE IF Disabling(r) THEN "restored" ELSE "none"
    /\ enable_pre' = IF Enabling(r, toggled_on) THEN [e \in Colored(r) |-> prims[e].dc]
                     ELSE IF Disabling(r) THEN enable_pre ELSE EmptyCache
    /\ UNCHANGED <<stage_open, applies, probe>>

\* lines 49-71; the stage is whatever the host has loaded
Init ==
    /\ stage_open = TRUE
    /\ prims \in [Paths -> PrimInit]
    /\ orig_colors = EmptyCache
    /\ cp_model \in CpVals
    /\ target_dt_model \in TargetVals
    /\ mode_model = 1
    /\ color_override_enabled_model = TRUE
    /\ window = "open"
    /\ pass = "none"
    /\ prev_pass = "none"
    /\ trip = "none"
    /\ enable_pre = EmptyCache
    /\ restored_keys = {}
    /\ applies = [e \in Paths |-> 0]
    /\ probe = NoProbe
    /\ batched = {}
    /\ colored = {}
    /\ pristine = EmptyCache
    /\ selection = << >>
    /\ stale = {}
    /\ steps = 0

\* ----------------------------------------------------------------- handlers
\* line 145
CpChanged ==
    /\ window = "open"
    /\ \E v \in CpVals \ {cp_model} :
        /\ cp_model' = v
        /\ Commit(RecomputeAndColor(Start,
               Cfg(v, target_dt_model, mode_model, color_override_enabled_model), StageOrder), FALSE)
    /\ UNCHANGED <<target_dt_model, mode_model, color_override_enabled_model, window>>

\* lines 146-148
TargetDtChanged ==
    /\ window = "open"
    /\ \E v \in TargetVals \ {target_dt_model} :
        /\ target_dt_model' = v
        /\ Commit(RecomputeAndColor(Start,
               Cfg(cp_model, v, mode_model, color_override_enabled_model), StageOrder), FALSE)
    /\ UNCHANGED <<cp_model, mode_model, color_override_enabled_model, window>>

\* line 149
ModeChanged ==
    /\ window = "open"
    /\ \E v \in ModeVals \ {mode_model} :
        /\ mode_model' = v
        /\ Commit(RecomputeAndColor(Start,
               Cfg(cp_model, target_dt_model, v, color_override_enabled_model), StageOrder), FALSE)
    /\ UNCHANGED <<cp_model, target_dt_model, color_override_enabled_model, window>>

\* lines 150-152
OverrideToggled ==
    /\ window = "open"
    /\ color_override_enabled_model' = ~color_override_enabled_model
    /\ Commit(RecomputeAndColor(Start,
               Cfg(cp_model, target_dt_model, mode_model, ~color_override_enabled_model),
               StageOrder), ~color_override_enabled_model)
    /\ UNCHANGED <<cp_model, target_dt_model, mode_model, window>>

\* lines 130-133
RecomputeClicked ==
    /\ window = "open"
    /\ Commit(RecomputeAndColor(Start,
            Cfg(cp_model, target_dt_model, mode_model, color_override_enabled_model),
            StageOrder), FALSE)
    /\ UNCHANGED <<config, window>>

\* lines 117-120
ApplyDefaultsClicked ==
    /\ window = "open"
    /\ \E paths \in SUBSET Paths,
          power_val \in BatchPowerVals, mdot_val \in BatchMdotVals :
        Commit(ApplyDefaults(Start,
            Cfg(cp_model, target_dt_model, mode_model, color_override_enabled_model),
            StageOrder, paths, power_val, mdot_val), FALSE)
    /\ UNCHANGED <<config, window>>

\* lines 73-78
OnShutdown ==
    /\ window = "open"
    /\ Commit(RestoreColors(Start), FALSE)
    /\ window' = "none"
    /\ UNCHANGED config

\* ------------------------------------------------------- the host's stage
HostEdit ==
    /\ window = "open"
    /\ steps < MaxSteps
    /\ steps' = steps + 1
    /\ pass' = "host"
    /\ prev_pass' = pass
    /\ restored_keys' = {}
    /\ batched' = {}
    /\ colored' = {}
    /\ trip' = IF trip = "enabled" THEN trip ELSE "none"
    /\ enable_pre' = IF trip = "enabled" THEN enable_pre ELSE EmptyCache
    /\ selection' = << >>
    /\ UNCHANGED <<orig_colors, config, window, pristine, stale, applies, probe>>

\* a prim is deleted: GetPrimAtPath no longer resolves (line 326)
HostRemovesPrim ==
    /\ stage_open
    /\ \E e \in Paths :
        /\ prims[e].valid
        /\ prims' = [prims EXCEPT ![e] =
              [valid |-> FALSE, power |-> Absent, mdot |-> Absent,
               mreq |-> Absent, dc |-> "absent"]]
    /\ HostEdit
    /\ UNCHANGED stage_open

\* user:rackPowerW is removed from a prim (line 233)
HostClearsPower ==
    /\ stage_open
    /\ \E e \in Paths :
        /\ prims[e].valid
        /\ Exists(prims[e].power)
        /\ prims' = [prims EXCEPT ![e].power = Absent]
    /\ HostEdit
    /\ UNCHANGED stage_open

\* the stage is closed or opened: _get_stage() (lines 157-159)
HostClosesStage ==
    /\ stage_open
    /\ stage_open' = FALSE
    /\ HostEdit
    /\ UNCHANGED prims

HostOpensStage ==
    /\ ~stage_open
    /\ stage_open' = TRUE
    /\ HostEdit
    /\ UNCHANGED prims

Next ==
    \/ CpChanged
    \/ TargetDtChanged
    \/ ModeChanged
    \/ OverrideToggled
    \/ RecomputeClicked
    \/ ApplyDefaultsClicked
    \/ OnShutdown
    \/ HostRemovesPrim
    \/ HostClearsPower
    \/ HostClosesStage
    \/ HostOpensStage

Spec == Init /\ [][Next]_vars

\* ------------------------------------ _apply_color_for_prim called on its own
\* The colour step as a function of its arguments: any prim, any delta_t, any
\* target_dt, any number of times, on a stage of racks and a cache that is
\* not cleared in between (the inside of one full pass).
DeltaVals == {Frac(1, 2), Frac(1, 1), Frac(2, 1), Frac(3, 1), Frac(7, 2), Frac(4, 1)}
ProbeTargets == {0, 2, 3}

ApplyInit ==
    /\ stage_open = TRUE
    /\ prims \in [Paths -> {Prim(Num(4), Num(1), c) : c \in ColorInit}]
    /\ orig_colors = EmptyCache
    /\ cp_model \in CpVals
    /\ target_dt_model \in TargetVals
    /\ mode_model = 1
    /\ color_override_enabled_model = TRUE
    /\ window = "open"
    /\ pass = "none"
    /\ prev_pass = "none"
    /\ trip = "none"
    /\ enable_pre = EmptyCache
    /\ restored_keys = {}
    /\ applies = [e \in Paths |-> 0]
    /\ probe = NoProbe
    /\ batched = {}
    /\ colored = {}
    /\ pristine = EmptyCache
    /\ selection = << >>
    /\ stale = {}
    /\ steps = 0

ApplyCalled ==
    /\ steps < MaxSteps
    /\ steps' = steps + 1
    /\ \E e \in Paths, delta_t \in DeltaVals, target_dt \in ProbeTargets :
        LET r == ApplyColorForPrim(Start, e, delta_t, target_dt) IN
        /\ prims' = r.prims
        /\ orig_colors' = r.orig_colors
        /\ applies' = [applies EXCEPT ![e] = @ + 1]
        /\ probe' = [e |-> e, at |-> "call", delta_t |-> delta_t, target_dt |-> target_dt,
                      color |-> Classify(delta_t, target_dt)]
        /\ pristine' = IF e \in DOMAIN pristine THEN pristine
                       ELSE [p \in DOMAIN pristine \cup {e} |->
                               IF p = e THEN prims[e].dc ELSE pristine[p]]
    /\ UNCHANGED <<stage_open, config, window, pass, prev_pass, trip, enable_pre,
                   restored_keys, batched, colored, selection, stale>>

ApplySpec == ApplyInit /\ [][ApplyCalled]_vars

\* ------------------------------------------- lines 297-306 on Python floats
\* delta_t, target_dt and tol are binary64 values and the two subtractions of
\* lines 301 and 303 round to nearest, ties to even.  A non-negative binary64
\* value is written here as a whole number of units of 2^-62 (the last place
\* of tol = 1e-3), held in four 20-bit limbs, most significant first.
Precision == 53
MaxFloatTarget == 16

RECURSIVE Pow2(_)
Pow2(k) == IF k = 0 THEN 1 ELSE 2 * Pow2(k - 1)
RECURSIVE Log2(_)
Log2(n) == IF n <= 1 THEN 0 ELSE 1 + Log2(n \div 2)
Limb == Pow2(20)

\* carries (or borrows) moved up so that every limb but the first is in 0..Limb-1
Norm(x) ==
    LET c4 == x[4] \div Limb
        l3 == x[3] + c4
        c3 == l3 \div Limb
        l2 == x[2] + c3
        c2 == l2 \div Limb
    IN <<x[1] + c2, l2 % Limb, l3 % Limb, x[4] % Limb>>

IsZero(x) == x = <<0, 0, 0, 0>>
LessLimbs(a, b) ==
    \E i \in 1..4 : a[i] < b[i] /\ \A j \in 1..(i - 1) : a[j] = b[j]
LeqLimbs(a, b) == ~LessLimbs(b, a)

\* exact sum, exact difference (a >= b), exact half (x even)
AddLimbs(a, b) == Norm(<<a[1] + b[1], a[2] + b[2], a[3] + b[3], a[4] + b[4]>>)
SubLimbs(a, b) == Norm(<<a[1] - b[1], a[2] - b[2], a[3] - b[3], a[4] - b[4]>>)
HalfLimbs(x) ==
    <<x[1] \div 2,
      (x[1] % 2) * (Limb \div 2) + x[2] \div 2,
      (x[2] % 2) * (Limb \div 2) + x[3] \div 2,
      (x[3] % 2) * (Limb \div 2) + x[4] \div 2>>

\* the position of the leading bit of x > 0, counted from 0 at the last unit
TopBit(x) ==
    IF x[1] > 0 THEN 60 + Log2(x[1])
    ELSE IF x[2] > 0 THEN 40 + Log2(x[2])
    ELSE IF x[3] > 0 THEN 20 + Log2(x[3])
    ELSE Log2(x[4])

\* the nearest value with Precision significant bits, ties to even
RoundLimbs(x) ==
    IF IsZero(x) THEN x
    ELSE LET q == TopBit(x) - (Precision - 1) IN
         IF q <= 0 THEN x
         ELSE LET rest == x[4] % Pow2(q)
                  half == Pow2(q - 1)
                  odd == (x[4] \div Pow2(q)) % 2 = 1
                  kept == <<x[1], x[2], x[3], x[4] - rest>>
              IN IF rest > half \/ (rest = half /\ odd)
                 THEN Norm(<<x[1], x[2], x[3], x[4] - rest + Pow2(q)>>)
                 ELSE kept

\* a + b, a - b (a >= b) and abs(a - b) as Python computes them
FloatAdd(a, b) == RoundLimbs(AddLimbs(a, b))
FloatSub(a, b) == RoundLimbs(SubLimbs(a, b))
FloatAbsDiff(a, b) == IF LessLimbs(a, b) THEN FloatSub(b, a) ELSE FloatSub(a, b)

\* the binary64 value of a whole number t: t * 2^62 units
FloatOfInt(t) == <<4 * t, 0, 0, 0>>

\* line 297: the binary64 value of the literal 1e-3, 0x1.0624dd2f1a9fcp-10,
\* which is 0x10624DD2F1A9FC units: 0x1062, 0x4DD2F and 0x1A9FC
TolLimbs == <<0, 4194, 318767, 109052>>
HalfTolLimbs == HalfLimbs(TolLimbs)
TwoTolLimbs == AddLimbs(TolLimbs, TolLimbs)

\* lines 297-306 for a target_dt >= 0 and a delta_t >= 0
ClassifyFloat(delta_t, target_dt) ==
    IF IsZero(target_dt) THEN GRAY
    ELSE IF LeqLimbs(TolLimbs, target_dt)
            /\ LessLimbs(delta_t, FloatSub(target_dt, TolLimbs)) THEN GREEN
    ELSE IF LeqLimbs(FloatAbsDiff(delta_t, target_dt), TolLimbs) THEN YELLOW
    ELSE RED

\* the delta_t values tried against a target: the Python expressions
\* target_dt - tol, target_dt + tol, target_dt, and points around them
FloatPoints == {"lower end", "upper end", "target", "below", "above",
                "inside low", "inside high"}
FloatPoint(at, target_dt) ==
    CASE at = "lower end" -> FloatSub(target_dt, TolLimbs)
      [] at = "upper end" -> FloatAdd(target_dt, TolLimbs)
      [] at = "target" -> target_dt
      [] at = "below" -> FloatSub(target_dt, TwoTolLimbs)
      [] at = "above" -> FloatAdd(target_dt, TwoTolLimbs)
      [] at = "inside low" -> FloatSub(target_dt, HalfTolLimbs)
      [] at = "inside high" -> FloatAdd(target_dt, HalfTolLimbs)

FloatClassifyCalled ==
    /\ \E t \in 1..MaxFloatTarget, at \in FloatPoints :
        LET target_dt == FloatOfInt(t)
            delta_t == FloatPoint(at, target_dt)
        IN probe' = [e |-> t, at |-> at, delta_t |-> delta_t, target_dt |-> target_dt,
                     color |-> ClassifyFloat(delta_t, target_dt)]
    /\ UNCHANGED <<stage_open, prims, orig_colors, config, window, pass, prev_pass, trip,
                   enable_pre, restored_keys, applies, batched, colored, pristine,
                   selection, stale, steps>>

FloatInit == ApplyInit /\ \A p \in Paths : prims[p] = Prim(Num(4), Num(1), "blue")
FloatSpec == FloatInit /\ [][FloatClassifyCalled]_vars

\* ----------------------------------- lines 247 and 277 on Python floats
\* The denominators cp * target_dt and cp * mdot are binary64 products.  For
\* the sign of a product, a binary64 value is kept as its sign, the exponent k
\* of its leading bit, and whether it is exactly 2^k; one factor of every
\* product tried is a power of two, so the exact product has exponent k1 + k2.
\* A product below 2^-1075, or exactly 2^-1075, rounds to 0.0 (round to
\* nearest, ties to even; 2^-1074 is the smallest positive binary64 value).
LeastExp == -1074
FloatZero == [sign |-> 0, k |-> 0, pow2 |-> FALSE]
FloatPow2(k) == [sign |-> 1, k |-> k, pow2 |-> TRUE]

\* the literal 1e-6 of line 215 is 0x1.0c6f7a0b5ed8dp-20
CpFloorFloat == [sign |-> 1, k |-> -20, pow2 |-> FALSE]

\* a > b for a zero or a power of two a and a positive b that is not one
FloatGreater(a, b) == a.sign = 1 /\ a.k > b.k

\* line 215: max(cp, 1e-6)
ClampCpFloat(cp) == IF FloatGreater(cp, CpFloorFloat) THEN cp ELSE CpFloorFloat

\* the sign of the binary64 product a * b of two positive values, one a power of two
ProductSign(a, b) ==
    LET k == a.k + b.k
        exact == a.pow2 /\ b.pow2
    IN IF k < LeastExp - 1 THEN "zero"
       ELSE IF k = LeastExp - 1 /\ exact THEN "zero"
       ELSE "positive"

\* the values tried: the cp field, and target_dt (design) or mdotActual (audit)
CpFields == {FloatZero} \cup {FloatPow2(k) : k \in {-30, -19, 0, 12}}
FactorExps == {LeastExp, -1070, -1063, -1060, -1056, -1055, -1054, -1040, -1000, -10, 0, 10}
Factors == {FloatZero} \cup {FloatPow2(k) : k \in FactorExps}

\* lines 215 and 243-277 for one prim with a heat load > 0: the sign checks
\* of line 245 (design) or line 273 (audit), then the denominator of the division
DenominatorComputed ==
    /\ \E cp_field \in CpFields, factor \in Factors, mode \in ModeVals :
        LET cp == ClampCpFloat(cp_field) IN
        probe' = [at |-> IF factor.sign <= 0 THEN "skipped" ELSE "division",
                  mode |-> mode, cp_field |-> cp_field, cp |-> cp, factor |-> factor,
                  denominator |-> IF factor.sign <= 0 THEN "none"
                                  ELSE ProductSign(cp, factor)]
    /\ UNCHANGED <<stage_open, prims, orig_colors, config, window, pass, prev_pass, trip,
                   enable_pre, restored_keys, applies, batched, colored, pristine,
                   selection, stale, steps>>

DivisionSpec == FloatInit /\ [][DenominatorComputed]_vars

\* ------------------------------------------- a full pass, statement by statement
\* _recompute_and_color with the override enabled, run one step at a time so
\* that the state between recording a colour and writing one can be looked at.
\* probe is the position: idle, in the loop at the prim StageOrder[e], inside
\* _apply_color_for_prim for it before the record (called) or after (recorded).
LoopEnd == Cardinality(Paths) + 1
Position(at, e, delta_t, target_dt) ==
    [e |-> e, at |-> at, delta_t |-> delta_t, target_dt |-> target_dt, color |-> "none"]
Idle == Position("idle", 0, Frac(0, 1), 0)
InLoop(e) == Position("loop", e, Frac(0, 1), 0)

\* a prim for which a full pass computes a delta_t: a readable heat load > 0
\* and, in design mode, a target > 0, in audit mode, a readable actual flow > 0
DeltaComputed(pr, target_dt, mode) ==
    /\ pr.valid
    /\ pr.power.st = "num" /\ pr.power.n > 0
    /\ mode = 0 => target_dt > 0
    /\ mode # 0 => pr.mdot.st = "num" /\ pr.mdot.n > 0

\* line 260 and line 277: the delta_t handed to _apply_color_for_prim
DeltaT(pr, cp, target_dt, mode) ==
    IF mode = 0 THEN Frac(target_dt, 1)
    ELSE Frac(pr.power.n, cp * pr.mdot.n)

PassInit ==
    /\ stage_open = TRUE
    /\ prims \in [Paths -> PrimInit]
    /\ orig_colors = EmptyCache
    /\ cp_model \in CpVals
    /\ target_dt_model \in TargetVals
    /\ mode_model = 1
    /\ color_override_enabled_model = TRUE
    /\ window = "open"
    /\ pass = "none"
    /\ prev_pass = "none"
    /\ trip = "none"
    /\ enable_pre = EmptyCache
    /\ restored_keys = {}
    /\ applies = [e \in Paths |-> 0]
    /\ probe = Idle
    /\ batched = {}
    /\ colored = {}
    /\ pristine = EmptyCache
    /\ selection = << >>
    /\ stale = {}
    /\ steps = 0

PassFrame ==
    UNCHANGED <<stage_open, cp_model, color_override_enabled_model, window, prev_pass,
                trip, enable_pre, restored_keys, batched, pristine, selection, stale>>

\* lines 146-149 and 210-226: a field changes, its callback starts the pass,
\* the pass reads the fields and empties the cache
PassBegins ==
    /\ probe.at = "idle"
    /\ steps < MaxSteps
    /\ steps' = steps + 1
    /\ \E tdt \in TargetVals, md \in ModeVals :
        /\ target_dt_model' = tdt
        /\ mode_model' = md
    /\ orig_colors' = PassStartCache(Start)
    /\ colored' = {}
    /\ pass' = "running"
    /\ probe' = InLoop(1)
    /\ PassFrame
    /\ UNCHANGED <<prims, applies>>

\* lines 229-275: the prim is left by one of the continue statements
PrimSkipped ==
    /\ probe.at = "loop"
    /\ probe.e < LoopEnd
    /\ ~DeltaComputed(prims[StageOrder[probe.e]], target_dt_model, mode_model)
    /\ probe' = InLoop(probe.e + 1)
    /\ PassFrame
    /\ UNCHANGED <<prims, orig_colors, applies, colored, pass, steps,
                   target_dt_model, mode_model>>

\* lines 243-280: the required flow is written in design mode, delta_t is
\* computed and _apply_color_for_prim is entered
PrimComputed ==
    /\ probe.at = "loop"
    /\ probe.e < LoopEnd
    /\ LET e == StageOrder[probe.e]
           cp == ClampCp(cp_model)
       IN /\ DeltaComputed(prims[e], target_dt_model, mode_model)
          /\ prims' = IF mode_model = 0
                       THEN SetRequired(Start, e,
                                Frac(prims[e].power.n, cp * target_dt_model)).prims
                       ELSE prims
          /\ probe' = Position("called", probe.e,
                           DeltaT(prims[e], cp, target_dt_model, mode_model),
                           target_dt_model)
    /\ PassFrame
    /\ UNCHANGED <<orig_colors, applies, colored, pass, steps, target_dt_model, mode_model>>

\* lines 288-294
ColorRecorded ==
    /\ probe.at = "called"
    /\ orig_colors' = RecordIfAbsent(Start, StageOrder[probe.e]).orig_colors
    /\ probe' = [probe EXCEPT !.at = "recorded"]
    /\ PassFrame
    /\ UNCHANGED <<prims, applies, colored, pass, steps, target_dt_model, mode_model>>

\* lines 296-316, and back to the loop
ColorSet ==
    /\ probe.at = "recorded"
    /\ LET e == StageOrder[probe.e] IN
        /\ prims' = SetColor(Start, e, Classify(probe.delta_t, probe.target_dt)).prims
        /\ applies' = [applies EXCEPT ![e] = 1]
        /\ colored' = colored \cup {e}
    /\ probe' = InLoop(probe.e + 1)
    /\ PassFrame
    /\ UNCHANGED <<orig_colors, pass, steps, target_dt_model, mode_model>>

\* line 228: the traversal is exhausted and the handler returns
PassEnds ==
    /\ probe.at = "loop"
    /\ probe.e = LoopEnd
    /\ probe' = Idle
    /\ pass' = "full"
    /\ applies' = [e \in Paths |-> 0]
    /\ PassFrame
    /\ UNCHANGED <<prims, orig_colors, colored, steps, target_dt_model, mode_model>>

PassNext ==
    \/ PassBegins
    \/ PrimSkipped
    \/ PrimComputed
    \/ ColorRecorded
    \/ ColorSet
    \/ PassEnds

PassSpec == PassInit /\ [][PassNext]_vars

\* ------------------------------------------------------------------ claims
\* the colour c is what the prim showed when its colour was orig: the same
\* authored colour, or no attribute at all where there was none
SameAsBefore(c, orig) ==
    /\ Shown(c) = Shown(orig)
    /\ orig = "absent" => c = "absent"

\* C1: once a restore pass completes, the cache is empty and every prim
\* overridden during the enabled session, however many full passes the session
\* ran, has the display colour it had before the session's first override (or no
\* display colour attribute if it had none).
C1_RestoreGivesPreSessionColors ==
    [][pass' = "restore" =>
        /\ orig_colors' = EmptyCache
        /\ \A e \in DOMAIN pristine :
            prims'[e].valid => SameAsBefore(prims'[e].dc, pristine[e])]_vars

\* C2: enabling from the disabled state with an empty cache (one full pass) and
\* then disabling (restore pass) with no configuration change in between gives
\* every prim the enabling pass coloured its colour from before the enabling,
\* and no display colour attribute where there was none.
C2_ToggleRoundTrip ==
    trip = "restored" =>
        \A e \in DOMAIN enable_pre :
            prims[e].valid => SameAsBefore(prims[e].dc, enable_pre[e])

\* a round trip that coloured a prim with an authored colour and one without
C2_Witness ==
    /\ trip = "restored"
    /\ \E e \in DOMAIN enable_pre : prims[e].valid /\ enable_pre[e] = "blue"
    /\ \E e \in DOMAIN enable_pre : prims[e].valid /\ enable_pre[e] = "absent"

\* C3: while no restore pass runs, a cache entry once recorded is never
\* replaced or discarded, across any number of full passes.
C3_CacheEntryKept ==
    [][pass' # "restore" =>
        \A e \in DOMAIN orig_colors :
            e \in DOMAIN orig_colors' /\ orig_colors'[e] = orig_colors[e]]_vars

\* C4: a restore pass that directly follows a restore pass finds the cache
\* empty and changes no attribute of any prim (a batch assignment that leads to
\* the second restore pass writes its two attributes before the pass starts).
C4_RestoreIdempotent ==
    [][(pass = "restore" /\ pass' = "restore") =>
        /\ orig_colors = EmptyCache
        /\ orig_colors' = EmptyCache
        /\ \A e \in Paths \ batched' : prims'[e] = prims[e]
        /\ \A e \in batched' : /\ prims'[e].dc = prims[e].dc
                                /\ prims'[e].mreq = prims[e].mreq]_vars

\* two restore passes in a row, after a design pass that had coloured a prim
C4_Witness ==
    /\ pass = "restore"
    /\ prev_pass = "restore"
    /\ \E e \in Paths : prims[e].mreq.st = "num"

\* C5: when the colour step runs more than once for a prim within one pass,
\* the prim's cache entry is the colour (or the no-colour marker) seen before
\* the first of those runs; later runs leave it alone.
C5_FirstWriteWins ==
    \A e \in Paths :
        applies[e] >= 1 => e \in DOMAIN orig_colors /\ orig_colors[e] = Shown(pristine[e])

\* a prim coloured twice, with a different colour each time
C5_Witness ==
    \E e \in Paths :
        /\ applies[e] >= 2
        /\ pristine[e] = "blue"
        /\ probe.e = e
        /\ prims[e].dc = RED
        /\ orig_colors[e] = "blue"

\* what the restore pass leaves on a valid prim whose cache entry is orig
RestoredColor(orig) == IF orig = "None" THEN "absent" ELSE orig

\* C6: a restore pass always ends with an empty cache, whatever the stage is
\* like.  The pass runs in every handler that reaches _restore_colors: the
\* handlers that report a restore pass, and on_shutdown.
C6_RestoreAlwaysClears ==
    (pass = "restore" \/ window = "none") => orig_colors = EmptyCache

\* C6 as amended: with a stage loaded, the restore pass ends with an empty
\* cache; a cached prim that no longer resolves is skipped, every other cached
\* prim gets its cached colour back.
C6_RestoreClearsOnStage ==
    [][pass' = "restore" =>
        /\ stage_open
        /\ orig_colors' = EmptyCache
        /\ \A e \in DOMAIN orig_colors :
            IF prims[e].valid
            THEN prims'[e].dc = RestoredColor(orig_colors[e])
            ELSE prims'[e] = prims[e]]_vars

\* a restore pass whose cache held a deleted prim and a prim it restored to blue
C6_Witness ==
    /\ pass = "restore"
    /\ orig_colors = EmptyCache
    /\ \E e \in restored_keys : ~prims[e].valid
    /\ \E e \in restored_keys : prims[e].valid /\ prims[e].dc = "blue"

\* the claim's reasons for a full pass to skip a prim
NoHeatLoad(pr) == ~HasAuthoredValue(pr.power)
HeatLoadNotPositive(pr) == pr.power.st = "num" /\ pr.power.n <= 0
FlowMissingOrNotPositive(pr) ==
    \/ ~HasAuthoredValue(pr.mdot)
    \/ pr.mdot.st = "num" /\ pr.mdot.n <= 0
SkippedPrim(pr, target_dt, mode) ==
    \/ NoHeatLoad(pr)
    \/ HeatLoadNotPositive(pr)
    \/ mode = 0 /\ target_dt <= 0
    \/ mode = 1 /\ FlowMissingOrNotPositive(pr)

\* C7: a prim that a full pass skips (no authored heat load, heat load <= 0,
\* design mode with target <= 0, audit mode with missing or non-positive flow)
\* gets no required flow and no colour written and no cache entry in that pass.
C7_SkippedPrimUntouched ==
    [][pass' = "full" =>
        \A e \in Paths :
            SkippedPrim(prims'[e], target_dt_model', mode_model') =>
                /\ prims'[e].dc = prims[e].dc
                /\ prims'[e].mreq = prims[e].mreq
                /\ e \notin DOMAIN orig_colors'
                /\ e \notin colored']_vars

\* a full pass that coloured one prim and skipped another, one for each reason
C7_Witness ==
    /\ pass = "full"
    /\ colored # {}
    /\ \E e \in Paths \ colored :
        /\ prims[e].valid
        /\ SkippedPrim(prims[e], target_dt_model, mode_model)
        /\ prims[e].dc = "blue"

\* a step in which a handler went through _recompute_and_color
RecomputeRan == steps' = steps + 1 /\ pass' # "host" /\ window' = "open"

\* C8: with the override disabled, the recompute entry point only restores:
\* no required flow is written, no colour is set other than a cached one put
\* back, and the cache is empty afterwards.
C8_DisabledOnlyRestores ==
    [][(RecomputeRan /\ ~color_override_enabled_model') =>
        /\ pass' # "full"
        /\ \A e \in Paths :
            /\ prims'[e].mreq = prims[e].mreq
            /\ prims'[e].dc # prims[e].dc =>
                  e \in DOMAIN orig_colors
                  /\ prims'[e].dc = RestoredColor(orig_colors[e])
        /\ orig_colors' = EmptyCache]_vars

\* C8 as amended: the same, with the cache empty afterwards when a stage is loaded.
C8_DisabledOnlyRestoresOnStage ==
    [][(RecomputeRan /\ ~color_override_enabled_model') =>
        /\ pass' # "full"
        /\ \A e \in Paths :
            /\ prims'[e].mreq = prims[e].mreq
            /\ prims'[e].dc # prims[e].dc =>
                  e \in DOMAIN orig_colors
                  /\ prims'[e].dc = RestoredColor(orig_colors[e])
        /\ stage_open => orig_colors' = EmptyCache]_vars

\* disabled, design mode with a positive target, a restore pass just run, and a
\* rack still without the required flow a full pass would have written
C8_Witness ==
    /\ ~color_override_enabled_model
    /\ window = "open"
    /\ pass = "restore"
    /\ mode_model = 0
    /\ target_dt_model > 0
    /\ \E e \in Paths :
        /\ prims[e].valid
        /\ prims[e].power.st = "num" /\ prims[e].power.n > 0
        /\ prims[e].mreq = Absent

\* C9: for target_dt > 0 the colour is green exactly below target - tol, yellow
\* exactly within tol of the target, and red otherwise; delta_t = target_dt - tol
\* and delta_t = target_dt + tol are yellow.  On binary64 operands:
C9_BandEndsMatch ==
    /\ probe.at \in {"lower end", "upper end", "target", "inside low", "inside high"}
          => probe.color = YELLOW
    /\ probe.at = "below" => probe.color = GREEN
    /\ probe.at = "above" => probe.color = RED

\* the same bands where no operation rounds (exact fractions):
InBand(delta_t, target_dt) ==
    IF delta_t.n < (target_dt - Tol) * delta_t.d THEN "under"
    ELSE IF delta_t.n > (target_dt + Tol) * delta_t.d THEN "over"
    ELSE "match"
C9_ExactBands ==
    (probe.e \in Paths /\ probe.target_dt > 0) =>
        LET band == InBand(probe.delta_t, probe.target_dt)
            c == prims[probe.e].dc
        IN /\ c \in {GREEN, YELLOW, RED}
           /\ c = GREEN <=> band = "under"
           /\ c = YELLOW <=> band = "match"
           /\ c = RED <=> band = "over"

\* the two ends of the band: delta_t = target_dt - tol and delta_t = target_dt + tol
C9_ExactWitness ==
    /\ probe.e \in Paths
    /\ probe.target_dt = 2
    /\ probe.delta_t \in {Frac(1, 1), Frac(3, 1)}
    /\ prims[probe.e].dc = YELLOW

\* C10: after a design pass with target_dt > 0 every valid prim with an
\* authored heat load > 0 has a required flow m with
\* m = power / (cp * target_dt) for the clamped cp, that is
\* power / (cp * m) = target_dt.
C10_DesignRequiredFlow ==
    (pass = "full" /\ mode_model = 0 /\ target_dt_model > 0) =>
        \A e \in Paths :
            (prims[e].valid /\ prims[e].power.st = "num" /\ prims[e].power.n > 0) =>
                LET m == prims[e].mreq
                    cp == IF cp_model > CpFloor THEN cp_model ELSE CpFloor
                IN /\ m.st = "num"
                   /\ m.d > 0 /\ m.n > 0
                   /\ m.n * (cp * target_dt_model) = prims[e].power.n * m.d
                   /\ prims[e].power.n * m.d = target_dt_model * (cp * m.n)

\* a design pass on a rack, run with a cp field of zero, which the clamp raises
C10_Witness ==
    /\ pass = "full"
    /\ mode_model = 0
    /\ target_dt_model > 0
    /\ cp_model <= 0
    /\ \E e \in colored : prims[e].mreq.st = "num"

\* C11: the batch assignment writes the heat load and the actual flow on every
\* prim of the given list, creating the attributes where absent, and then runs
\* a full pass.
C11_BatchWritesAllThenFullPass ==
    [][selection' # << >> =>
        /\ \A e \in selection'[1].paths :
            /\ prims'[e].power = Num(selection'[1].power_val)
            /\ prims'[e].mdot = Num(selection'[1].mdot_val)
        /\ pass' = "full"]_vars

\* the prims of the list a full pass run after the writes has to colour
ColoredAfterBatch(paths) ==
    IF mode_model = 0 /\ target_dt_model <= 0 THEN {}
    ELSE {e \in paths : prims[e].valid}

\* C11 as amended: with a stage loaded, the batch assignment writes both
\* attributes on every prim of the list that resolves, creating them where
\* absent, and then runs the recompute entry point on the written values: a
\* full pass when the override is enabled, a restore pass when it is not.
\* With no stage loaded it changes nothing.
C11_BatchWritesValidThenRecompute ==
    [][selection' # << >> =>
        IF stage_open
        THEN /\ \A e \in selection'[1].paths :
                  IF prims[e].valid
                  THEN /\ prims'[e].power = Num(selection'[1].power_val)
                       /\ prims'[e].mdot = Num(selection'[1].mdot_val)
                  ELSE prims'[e] = prims[e]
             /\ pass' = IF color_override_enabled_model THEN "full" ELSE "restore"
             /\ color_override_enabled_model =>
                  ColoredAfterBatch(selection'[1].paths) \subseteq colored'
        ELSE /\ prims' = prims
             /\ orig_colors' = orig_colors
             /\ pass' = "none"]_vars

\* a batch assignment that created an attribute on a prim of its list, which
\* the full pass it ran then coloured
C11_Witness ==
    /\ selection # << >>
    /\ pass = "full"
    /\ \E e \in selection[1].created :
        /\ e \in colored
        /\ prims[e].power = Num(selection[1].power_val)
        /\ prims[e].mdot = Num(selection[1].mdot_val)

\* C12: a full pass and a restore pass leave user:rackPowerW and user:mdotActual
\* of every prim as they were, and remove no prim; where the batch assignment
\* wrote the two attributes just before its pass, the pass leaves what it wrote.
C12_PassesLeaveInputsAlone ==
    [][pass' \in {"full", "restore"} =>
        \A e \in Paths :
            /\ prims'[e].valid = prims[e].valid
            /\ IF e \in batched'
               THEN /\ prims'[e].power = Num(selection'[1].power_val)
                    /\ prims'[e].mdot = Num(selection'[1].mdot_val)
               ELSE /\ prims'[e].power = prims[e].power
                    /\ prims'[e].mdot = prims[e].mdot]_vars

\* a restore pass that put colours back, right after a full pass, on a stage
\* where a design pass has written a required flow
C12_Witness ==
    /\ pass = "restore"
    /\ prev_pass = "full"
    /\ restored_keys # {}
    /\ \E e \in restored_keys :
        /\ prims[e].mreq.st = "num"
        /\ prims[e].power.st = "num"
        /\ prims[e].mdot.st = "num"

\* C13: after a full pass with target_dt = 0, in either mode, every prim for
\* which the pass computed a delta_t is coloured gray, and nothing is coloured
\* otherwise.
C13_ZeroTargetIsGray ==
    (pass = "full" /\ target_dt_model = 0) =>
        \A e \in Paths :
            /\ DeltaComputed(prims[e], target_dt_model, mode_model) =>
                  e \in colored /\ prims[e].dc = GRAY
            /\ e \in colored => prims[e].dc = GRAY

\* an audit pass with target_dt = 0 that computed a delta_t for a rack
C13_Witness ==
    /\ pass = "full"
    /\ target_dt_model = 0
    /\ mode_model = 1
    /\ \E e \in colored :
        /\ DeltaComputed(prims[e], target_dt_model, mode_model)
        /\ prims[e].dc = GRAY

\* C14: whenever a full pass writes a prim's display colour, the cache already
\* holds an entry for the prim, recorded in this pass (the pass starts from an
\* empty cache) before the prim's first colour write of the pass, and the
\* entry is the colour the write is about to replace.
C14_RecordBeforeWrite ==
    [][/\ (probe.at = "idle" /\ probe'.at = "loop") => orig_colors' = EmptyCache
       /\ \A e \in Paths :
            prims'[e].dc # prims[e].dc \/ applies'[e] > applies[e] =>
                /\ probe.at = "recorded"
                /\ e \notin colored
                /\ e \in DOMAIN orig_colors
                /\ orig_colors[e] = Shown(prims[e].dc)]_vars

\* in the second pass of a run, a prim has been recorded and the write of
\* its colour is the next statement
C14_Witness ==
    /\ steps = 2
    /\ probe.at = "recorded"
    /\ StageOrder[probe.e] \in DOMAIN orig_colors
    /\ StageOrder[probe.e] \notin colored
    /\ colored # {}

\* the colours _apply_color_for_prim writes
OverrideColors == {GRAY, GREEN, YELLOW, RED}

C16_DesignIsYellow ==
    (pass = "full" /\ mode_model = 0) =>
        \A e \in colored : prims[e].dc = YELLOW

\* a design pass that coloured a rack
C16_Witness ==
    /\ pass = "full"
    /\ mode_model = 0
    /\ target_dt_model > 0
    /\ \E e \in colored : prims[e].dc = YELLOW /\ prims[e].mreq.st = "num"

\* C17: user:mdotRequired changes only in a design-mode full pass and only on
\* prims the pass does not skip; an audit-mode full pass leaves the attribute
\* of every prim as it was (absent, or the value of an earlier design pass).
C17_RequiredFlowOnlyInDesign ==
    [][\A e \in Paths :
        (prims'[e].valid /\ prims'[e].mreq # prims[e].mreq) =>
            /\ pass' = "full"
            /\ mode_model' = 0
            /\ e \in colored'
            /\ DeltaComputed(prims'[e], target_dt_model', mode_model')]_vars

\* an audit pass that coloured a rack carrying the required flow of an earlier
\* design pass
C17_Witness ==
    /\ pass = "full"
    /\ mode_model = 1
    /\ \E e \in colored : prims[e].mreq.st = "num"

\* the full pass the recompute entry point would run now, visiting in order o
FullPassIn(o) ==
    RecomputeAndColor(Start, Cfg(cp_model, target_dt_model, mode_model, TRUE), o)

\* C18: for the stage and the configuration of any reachable state, a full
\* pass gives the same attributes on every prim and the same cache whatever
\* order it visits the prims in.
C18_OrderIndependent ==
    \A o1, o2 \in Orders :
        /\ FullPassIn(o1).prims = FullPassIn(o2).prims
        /\ FullPassIn(o1).orig_colors = FullPassIn(o2).orig_colors

\* a full pass has coloured two prims whose original colours differed, there
\* are two orders to visit them in, and a pass in either order colours both
C18_Witness ==
    /\ pass = "full"
    /\ stage_open
    /\ Cardinality(colored) = 2
    /\ Cardinality(Orders) = 2
    /\ DOMAIN orig_colors = Paths
    /\ orig_colors[1] # orig_colors[2]
    /\ \A o \in Orders :
        /\ DOMAIN FullPassIn(o).orig_colors = Paths
        /\ FullPassIn(o).prims = prims

\* C19: no full pass divides by zero or by a negative number: whatever the cp
\* field holds, and for every target_dt and mdotActual that passes its > 0
\* check, the denominator of the division is strictly positive.
C19_DenominatorsPositive ==
    probe.at = "division" => probe.denominator = "positive"

\* C20: after every full pass the keys of the cache are exactly the prims
\* whose display colour the pass wrote.
C20_CacheKeysAreColored ==
    pass = "full" => DOMAIN orig_colors = colored

\* a full pass that coloured one prim and left out a prim an earlier full pass
\* of the session had coloured
C20_Witness ==
    /\ pass = "full"
    /\ colored # {}
    /\ DOMAIN orig_colors = colored
    /\ \E e \in stale : prims[e].valid /\ e \notin colored

====
